---- MODULE Spec2Model ----
(***************************************************************************)
(* Model of scripts/compare_jmh.py: the __main__ block, main, extract and  *)
(* grab.                                                                   *)
(*                                                                         *)
(* A file is the result of read_text().splitlines(): a sequence of lines.  *)
(* A line is the result of line.split(): a sequence of tokens.  A token is *)
(* a sequence of atoms (pieces of text without whitespace), so that the    *)
(* substring test `tag in line` is computed as a search for a contiguous   *)
(* run of atoms inside a token (tags hold no whitespace, so a tag occurs   *)
(* in a line exactly when it occurs in one of its tokens).                 *)
(*                                                                         *)
(* Numbers are the integers the numeric tokens denote; products stay far   *)
(* below 2^53, so the float products are exact, and a quotient is kept as  *)
(* a reduced fraction: for these magnitudes the float quotient compares    *)
(* with 0.98 and with 1 exactly as the fraction compares with 98/100 and 1.*)
(***************************************************************************)
EXTENDS Integers, Sequences, FiniteSets, TLC

VARIABLES argc, fs, pc, call, lines, i, rets, opened,
          nps_base, nps_pr, ratio, stdout, stderr, exitcode

vars == <<argc, fs, pc, call, lines, i, rets, opened,
          nps_base, nps_pr, ratio, stdout, stderr, exitcode>>

(* ---------------- bounds ---------------- *)
MaxLines == 2
MaxArgc == 5

(* ---------------- program constants ---------------- *)
ThresholdNum == 98
ThresholdDen == 100
RequiredArgc == 3

(* ---------------- text ---------------- *)
Tok(s) == <<s>>
BenchScore == <<"HQBenchmark.", "perftNodes">>
BenchNodes == <<"HQBenchmark.", "perftNodes", ":nodes">>
BenchOther == <<"HQBenchmark.", "perftMoves">>

TagScore == <<"perftNodes">>
TagNodes == <<"perftNodes", ":nodes">>
ModeTag == <<"thrpt">>
AnchorScore == Tok("ops/s")
AnchorNodes == Tok("#")

\* float(tok) succeeds exactly on these tokens
FloatValue ==
  ("1000" :> 1000) @@ ("980" :> 980) @@ ("970" :> 970) @@ ("10" :> 10)
  @@ ("7" :> 7) @@ ("0" :> 0) @@ ("-10" :> -10)

ScoreLine(v) == <<BenchScore, Tok("thrpt"), Tok(v), Tok("ops/s")>>
NodesLine(v) == <<BenchNodes, Tok("thrpt"), Tok(v), Tok("#")>>

\* lines of the report-shaped inputs
ReportLines ==
  { ScoreLine("1000"),
    NodesLine("10"),
    <<BenchScore, Tok("thrpt"), Tok("+-"), Tok("ops/s")>>,
    <<Tok("ops/s"), BenchScore, Tok("thrpt"), Tok("970")>>,
    <<BenchNodes, Tok("thrpt"), Tok("7"), Tok("ops/s"), Tok("#")>>,
    <<BenchOther, Tok("thrpt"), Tok("7"), Tok("ops/s")>> }

\* lines of the well-formed inputs with varying numbers
NumericLines ==
  { ScoreLine("1000"), ScoreLine("980"), ScoreLine("970"),
    ScoreLine("0"), ScoreLine("-10"), NodesLine("10"), NodesLine("0") }

FilesOver(L) == UNION { [1..n -> L] : n \in 0..MaxLines }

Paths == {"base", "pr"}

(* ---------------- Python helpers ---------------- *)
\* sub in tok (contiguous occurrence)
InTok(sub, tok) ==
  \E k \in 0..(Len(tok) - Len(sub)) :
     \A j \in 1..Len(sub) : tok[k + j] = sub[j]

\* sub in line
InLine(sub, line) == \E t \in 1..Len(line) : InTok(sub, line[t])

Tag(want_nodes) == IF want_nodes THEN TagNodes ELSE TagScore
Anchor(want_nodes) == IF want_nodes THEN AnchorNodes ELSE AnchorScore

\* the condition of the if statement in grab
Matches(line, want_nodes) ==
  InLine(Tag(want_nodes), line) /\ InLine(ModeTag, line)

Raised == [ok |-> FALSE, val |-> 0]
Value(v) == [ok |-> TRUE, val |-> v]

\* toks.index(anchor), 0-based; -1 stands for ValueError
ListIndex(toks, anchor) ==
  IF \E p \in 1..Len(toks) : toks[p] = anchor
  THEN (CHOOSE p \in 1..Len(toks) :
          toks[p] = anchor /\ \A q \in 1..(p - 1) : toks[q] # anchor) - 1
  ELSE -1

\* toks[k] with Python's indexing: a negative k counts from the end
Subscript(toks, k) ==
  IF k >= 0 /\ k < Len(toks) THEN [ok |-> TRUE, tok |-> toks[k + 1]]
  ELSE IF k < 0 /\ -k <= Len(toks) THEN [ok |-> TRUE, tok |-> toks[Len(toks) + k + 1]]
  ELSE [ok |-> FALSE, tok |-> <<>>]

\* float(tok)
Float(tok) ==
  IF Len(tok) = 1 /\ tok[1] \in DOMAIN FloatValue
  THEN Value(FloatValue[tok[1]])
  ELSE Raised

\* the body of the try block in grab: Raised stands for ValueError/IndexError
TryExtract(toks, want_nodes) ==
  LET idx == ListIndex(toks, Anchor(want_nodes)) IN
  IF idx = -1 THEN Raised
  ELSE LET t == Subscript(toks, idx - 1) IN
       IF t.ok THEN Float(t.tok) ELSE Raised

(* ---------------- arithmetic ---------------- *)
Abs(x) == IF x < 0 THEN -x ELSE x

RECURSIVE GCD(_, _)
GCD(a, b) == IF b = 0 THEN a ELSE GCD(b, a % b)

Frac(n, d) ==
  LET g == GCD(Abs(n), Abs(d))
      s == IF d < 0 THEN -1 ELSE 1
  IN [ok |-> TRUE, num |-> s * (n \div g), den |-> s * (d \div g)]

Zero == [ok |-> TRUE, num |-> 0, den |-> 1]
ZeroDivisionError == [ok |-> FALSE, num |-> 0, den |-> 1]

\* a / b on floats
TrueDiv(a, b) == IF b = 0 THEN ZeroDivisionError ELSE Frac(a, b)

\* variant: the two factors added
NpsOfSum(score, nodes) == score + nodes

NpsOf(score, nodes) == score * nodes

\* variant: the division without its guard
RatioExprUnguarded(p, b) == TrueDiv(p, b)

\* variant: the division guarded by nps_base > 0
RatioExprPositiveOnly(p, b) == IF b > 0 THEN TrueDiv(p, b) ELSE Zero

\* nps_pr / nps_base if nps_base else 0
RatioExpr(p, b) == IF b # 0 THEN TrueDiv(p, b) ELSE Zero

\* variant: ratio <= 0.98
BelowThresholdInclusive(r) == r.num * ThresholdDen <= ThresholdNum * r.den

\* ratio < 0.98
BelowThreshold(r) == r.num * ThresholdDen < ThresholdNum * r.den

\* ratio > 1
AboveOne(r) == r.num > r.den

(* ---------------- the grab calls of main, in order ---------------- *)
CallPath(c) == IF c <= 2 THEN "base" ELSE "pr"
CallWantNodes(c) == c = 2 \/ c = 4

score_b == rets[1].val
nodes_b == rets[2].val
score_p == rets[3].val
nodes_p == rets[4].val

OutLine(label, r, note) == [label |-> label, num |-> r.num, den |-> r.den, note |-> note]

(* ---------------- state machine ---------------- *)
InitWith(L) ==
  /\ argc \in 1..MaxArgc
  /\ IF argc = RequiredArgc
     THEN fs \in [Paths -> FilesOver(L)]
     ELSE fs = [p \in Paths |-> <<>>]
  /\ pc = "start"
  /\ call = 0
  /\ lines = <<>>
  /\ i = 0
  /\ rets = <<>>
  /\ opened = <<>>
  /\ nps_base = 0
  /\ nps_pr = 0
  /\ ratio = Zero
  /\ stdout = <<>>
  /\ stderr = <<>>
  /\ exitcode = -1

Init == InitWith(ReportLines)
InitGate == InitWith(NumericLines)

\* variant: the argument count check as len(sys.argv) < 3
MainBlockAtLeast ==
  /\ pc = "start"
  /\ IF argc < RequiredArgc
     THEN /\ stderr' = Append(stderr, [kind |-> "usage", tag |-> <<>>, file |-> ""])
          /\ exitcode' = 1
          /\ pc' = "exited"
          /\ call' = call
     ELSE /\ pc' = "read"
          /\ call' = 1
          /\ UNCHANGED <<stderr, exitcode>>
  /\ UNCHANGED <<argc, fs, lines, i, rets, opened, nps_base, nps_pr, ratio, stdout>>

\* if __name__ == "__main__": the argument count check and the call of main
MainBlock ==
  /\ pc = "start"
  /\ IF argc # RequiredArgc
     THEN /\ stderr' = Append(stderr, [kind |-> "usage", tag |-> <<>>, file |-> ""])
          /\ exitcode' = 1
          /\ pc' = "exited"
          /\ call' = call
     ELSE /\ pc' = "read"
          /\ call' = 1
          /\ UNCHANGED <<stderr, exitcode>>
  /\ UNCHANGED <<argc, fs, lines, i, rets, opened, nps_base, nps_pr, ratio, stdout>>

\* f.read_text().splitlines()
GrabRead ==
  /\ pc = "read"
  /\ lines' = fs[CallPath(call)]
  /\ opened' = Append(opened, CallPath(call))
  /\ i' = 1
  /\ pc' = "scan"
  /\ UNCHANGED <<argc, fs, call, rets, nps_base, nps_pr, ratio, stdout, stderr, exitcode>>

\* variant: the except clause re-raises, a malformed line ends the run
GrabLineStopAtMalformed ==
  /\ pc = "scan"
  /\ i <= Len(lines)
  /\ LET want == CallWantNodes(call)
         r == TryExtract(lines[i], want)
     IN IF Matches(lines[i], want)
        THEN IF r.ok
             THEN /\ rets' = Append(rets, [val |-> r.val, line |-> i])
                  /\ IF call < 4
                     THEN pc' = "read" /\ call' = call + 1
                     ELSE pc' = "compute" /\ call' = call
                  /\ UNCHANGED <<i, stderr, exitcode>>
             ELSE /\ stderr' = Append(stderr, [kind |-> "ValueError",
                                               tag |-> Tag(want),
                                               file |-> CallPath(call)])
                  /\ exitcode' = 1
                  /\ pc' = "exited"
                  /\ UNCHANGED <<rets, call, i>>
        ELSE /\ i' = i + 1
             /\ UNCHANGED <<rets, pc, call, stderr, exitcode>>
  /\ UNCHANGED <<argc, fs, lines, opened, nps_base, nps_pr, ratio, stdout>>

\* one iteration of the for loop of grab
GrabLine ==
  /\ pc = "scan"
  /\ i <= Len(lines)
  /\ LET want == CallWantNodes(call)
         r == TryExtract(lines[i], want)
     IN IF Matches(lines[i], want) /\ r.ok
        THEN /\ rets' = Append(rets, [val |-> r.val, line |-> i])
             /\ IF call < 4
                THEN pc' = "read" /\ call' = call + 1
                ELSE pc' = "compute" /\ call' = call
             /\ i' = i
        ELSE /\ i' = i + 1
             /\ UNCHANGED <<rets, pc, call>>
  /\ UNCHANGED <<argc, fs, lines, opened, nps_base, nps_pr, ratio, stdout, stderr, exitcode>>

\* variant: a default of 0 returned in place of the raise
GrabRaiseDefault ==
  /\ pc = "scan"
  /\ i > Len(lines)
  /\ rets' = Append(rets, [val |-> 0, line |-> 0])
  /\ IF call < 4
     THEN pc' = "read" /\ call' = call + 1
     ELSE pc' = "compute" /\ call' = call
  /\ UNCHANGED <<argc, fs, lines, i, opened, nps_base, nps_pr, ratio, stdout, stderr, exitcode>>

\* the raise after the loop; nothing catches it, the interpreter exits with 1
GrabRaise ==
  /\ pc = "scan"
  /\ i > Len(lines)
  /\ stderr' = Append(stderr, [kind |-> "ValueError",
                               tag |-> Tag(CallWantNodes(call)),
                               file |-> CallPath(call)])
  /\ exitcode' = 1
  /\ pc' = "exited"
  /\ UNCHANGED <<argc, fs, call, lines, i, rets, opened, nps_base, nps_pr, ratio, stdout>>

\* the three assignments of main
Compute ==
  /\ pc = "compute"
  /\ nps_base' = NpsOf(score_b, nodes_b)
  /\ nps_pr' = NpsOf(score_p, nodes_p)
  /\ LET r == RatioExpr(nps_pr', nps_base') IN
     IF r.ok
     THEN /\ ratio' = r
          /\ pc' = "print_base"
          /\ UNCHANGED <<stderr, exitcode>>
     ELSE /\ ratio' = ratio
          /\ stderr' = Append(stderr, [kind |-> "ZeroDivisionError", tag |-> <<>>, file |-> ""])
          /\ exitcode' = 1
          /\ pc' = "exited"
  /\ UNCHANGED <<argc, fs, call, lines, i, rets, opened, stdout>>

PrintBase ==
  /\ pc = "print_base"
  /\ stdout' = Append(stdout, OutLine("Base nodes/s", Frac(nps_base, 1), ""))
  /\ pc' = "print_pr"
  /\ UNCHANGED <<argc, fs, call, lines, i, rets, opened, nps_base, nps_pr, ratio, stderr, exitcode>>

PrintPR ==
  /\ pc = "print_pr"
  /\ stdout' = Append(stdout, OutLine("PR   nodes/s", Frac(nps_pr, 1), ""))
  /\ pc' = "print_ratio"
  /\ UNCHANGED <<argc, fs, call, lines, i, rets, opened, nps_base, nps_pr, ratio, stderr, exitcode>>

\* variant: the ratio line left out
PrintRatioSilent ==
  /\ pc = "print_ratio"
  /\ pc' = "gate"
  /\ UNCHANGED <<argc, fs, call, lines, i, rets, opened, nps_base, nps_pr, ratio, stdout, stderr, exitcode>>

PrintRatio ==
  /\ pc = "print_ratio"
  /\ stdout' = Append(stdout, OutLine("Speed ratio", ratio,
                                      IF AboveOne(ratio) THEN "faster" ELSE "slower"))
  /\ pc' = "gate"
  /\ UNCHANGED <<argc, fs, call, lines, i, rets, opened, nps_base, nps_pr, ratio, stderr, exitcode>>

\* the threshold test, the verdict line and the end of the process
Gate ==
  /\ pc = "gate"
  /\ IF BelowThreshold(ratio)
     THEN /\ stdout' = Append(stdout, OutLine("verdict", Zero, "PR is slower than base"))
          /\ exitcode' = 1
     ELSE /\ stdout' = Append(stdout, OutLine("verdict", Zero, "PR is as fast or faster than base"))
          /\ exitcode' = 0
  /\ pc' = "exited"
  /\ UNCHANGED <<argc, fs, call, lines, i, rets, opened, nps_base, nps_pr, ratio, stderr>>

Next ==
  \/ MainBlock
  \/ GrabRead
  \/ GrabLine
  \/ GrabRaise
  \/ Compute
  \/ PrintBase
  \/ PrintPR
  \/ PrintRatio
  \/ Gate

Spec == Init /\ [][Next]_vars
SpecGate == InitGate /\ [][Next]_vars

(* ---------------- vocabulary of the properties ---------------- *)
Done == pc = "exited"
Parsed == Len(rets) = 4
Computed == Parsed /\ pc # "compute"

FileOf(c) == fs[CallPath(c)]

\* line k of file f yields a number for the given kind of grab
Yields(f, k, want_nodes) ==
  Matches(f[k], want_nodes) /\ TryExtract(f[k], want_nodes).ok

HasYield(f, want_nodes) == \E k \in 1..Len(f) : Yields(f, k, want_nodes)

FirstYield(f, want_nodes) ==
  CHOOSE k \in 1..Len(f) :
    Yields(f, k, want_nodes) /\ \A j \in 1..(k - 1) : ~Yields(f, j, want_nodes)

\* the number embedded in a file for the given kind of grab
Embedded(path, want_nodes) ==
  TryExtract(fs[path][FirstYield(fs[path], want_nodes)], want_nodes).val

BothYield == \A c \in 1..4 : HasYield(FileOf(c), CallWantNodes(c))

MissingCalls == { c \in 1..4 : ~HasYield(FileOf(c), CallWantNodes(c)) }

FirstMissing == CHOOSE c \in MissingCalls : \A d \in MissingCalls : c <= d

HasToken(line, tok) == \E t \in 1..Len(line) : line[t] = tok

Labels == <<"Base nodes/s", "PR   nodes/s", "Speed ratio", "verdict">>

GoodFile(s, n) == <<ScoreLine(s), NodesLine(n)>>

(* ---------------- C1 ---------------- *)
\* C1: a run with two arguments in which both files yield a score and a
\* nodes-per-call value ends with exit code 1 exactly when ratio < 0.98 and
\* with exit code 0 otherwise; base (1000, 10) against PR (980, 10) gives
\* ratio 0.98 and exit 0, against PR (970, 10) exit 1.
C1_ExitCodeIffBelowThreshold ==
  (argc = RequiredArgc /\ Done /\ BothYield) =>
     /\ exitcode \in {0, 1}
     /\ (exitcode = 1) <=> (ratio.num * 100 < 98 * ratio.den)
     /\ (fs["base"] = GoodFile("1000", "10") /\ fs["pr"] = GoodFile("980", "10"))
           => (exitcode = 0 /\ ratio.num * 100 = 98 * ratio.den)
     /\ (fs["base"] = GoodFile("1000", "10") /\ fs["pr"] = GoodFile("970", "10"))
           => exitcode = 1

C1_Witness ==
  /\ Done
  /\ fs["base"] = GoodFile("1000", "10")
  /\ fs["pr"] = GoodFile("980", "10")
  /\ ratio = [ok |-> TRUE, num |-> 49, den |-> 50]
  /\ exitcode = 0

(* ---------------- C2 ---------------- *)
\* C2: nps_base is the product of the base file's embedded score and nodes
\* values, nps_pr the product of the PR file's, and whenever nps_base > 0 the
\* ratio that is gated on equals nps_pr / nps_base.
C2_ProductsAndQuotient ==
  Computed =>
     /\ nps_base = Embedded("base", FALSE) * Embedded("base", TRUE)
     /\ nps_pr = Embedded("pr", FALSE) * Embedded("pr", TRUE)
     /\ nps_base > 0 => (ratio.ok /\ ratio.den > 0
                         /\ ratio.num * nps_base = nps_pr * ratio.den)

C2_Witness ==
  /\ pc = "gate"
  /\ nps_base = 10000
  /\ nps_pr = 9700
  /\ ratio = [ok |-> TRUE, num |-> 97, den |-> 100]

(* ---------------- C3 ---------------- *)
\* C3: when a required line (score line or :nodes line) yields no value in
\* the base file or in the PR file, the run ends with a non-zero exit status,
\* the error names the missing tag and the file, and nothing has been printed
\* to stdout at any point of the run.
C3_MissingLineAborts ==
  (argc = RequiredArgc /\ MissingCalls # {}) =>
     /\ stdout = <<>>
     /\ pc \in {"start", "read", "scan", "exited"}
     /\ Done => /\ exitcode # 0
                /\ stderr = << [kind |-> "ValueError",
                                tag |-> Tag(CallWantNodes(FirstMissing)),
                                file |-> CallPath(FirstMissing)] >>

C3_Witness ==
  /\ Done
  /\ argc = RequiredArgc
  /\ MissingCalls = {4}
  /\ Len(rets) = 3
  /\ stderr = << [kind |-> "ValueError", tag |-> TagNodes, file |-> "pr"] >>
  /\ exitcode = 1
  /\ stdout = <<>>

(* ---------------- C4 ---------------- *)
\* C4: with a number of positional arguments other than two the run emits
\* the usage message and ends with a non-zero exit status, no file is ever
\* opened and main never runs.
C4_UsageError ==
  (argc # RequiredArgc) =>
     /\ pc \in {"start", "exited"}
     /\ opened = <<>>
     /\ call = 0
     /\ rets = <<>>
     /\ stdout = <<>>
     /\ Done => /\ exitcode # 0
                /\ stderr = << [kind |-> "usage", tag |-> <<>>, file |-> ""] >>

C4_Witness ==
  /\ Done
  /\ argc > RequiredArgc
  /\ opened = <<>>
  /\ exitcode = 1
  /\ stderr = << [kind |-> "usage", tag |-> <<>>, file |-> ""] >>

(* ---------------- C5 ---------------- *)
\* C5: when nps_base is 0 no division error is raised: the ratio is the
\* sentinel 0 whatever nps_pr is, and the run goes on to print that ratio and
\* to gate on it.
C5_ZeroBaseSentinel ==
  (Computed /\ nps_base = 0) =>
     /\ ratio = Zero
     /\ stderr = <<>>
     /\ Done => /\ Len(stdout) = 4
                /\ stdout[3] = OutLine("Speed ratio", Zero, "slower")
                /\ exitcode = 1

C5_Witness ==
  /\ Done
  /\ Parsed
  /\ nps_base = 0
  /\ nps_pr # 0
  /\ ratio = Zero
  /\ Len(stdout) = 4

(* ---------------- C6 ---------------- *)
\* C6: grab skips a line that matches the tag and the mode token but yields
\* no number and goes on with the following lines; what it returns comes from
\* the first line, in file order, that yields a number, and the 'not found'
\* error is raised only when no line of the file yields one.
C6_FirstYieldingLine ==
  /\ \A c \in 1..Len(rets) :
        /\ HasYield(FileOf(c), CallWantNodes(c))
        /\ rets[c].line = FirstYield(FileOf(c), CallWantNodes(c))
        /\ rets[c].val = TryExtract(FileOf(c)[rets[c].line], CallWantNodes(c)).val
  /\ (Done /\ argc = RequiredArgc /\ Len(rets) < 4) =>
        /\ call = Len(rets) + 1
        /\ ~HasYield(FileOf(call), CallWantNodes(call))
  /\ (pc = "scan") => \A j \in 1..(i - 1) : ~Yields(lines, j, CallWantNodes(call))

C6_Witness ==
  /\ Len(rets) >= 1
  /\ rets[1].line = 2
  /\ Matches(fs["base"][1], FALSE)
  /\ ~TryExtract(fs["base"][1], FALSE).ok

(* ---------------- C7 ---------------- *)
\* C7 as stated: a run that parses both files has written exactly three lines
\* to stdout when it ends (base, PR, ratio with direction), with exit code 1 if
\* ratio < 0.98 and 0 otherwise.
C7_ExactlyThreeLines ==
  (Done /\ Parsed) =>
     /\ Len(stdout) = 3
     /\ \A k \in 1..3 : stdout[k].label = Labels[k]
     /\ (exitcode = 1) <=> (ratio.num * 100 < 98 * ratio.den)

\* C7 amended: a run that parses both files writes exactly four lines, in
\* this order: base nodes/s, PR nodes/s, ratio with direction, verdict; the
\* process ends with the verdict line, with exit code 1 and the failing
\* verdict if ratio < 0.98, exit code 0 and the passing verdict otherwise.
C7_FourLinesThenExit ==
  Parsed =>
     /\ Len(stdout) <= 4
     /\ \A k \in 1..Len(stdout) : stdout[k].label = Labels[k]
     /\ Len(stdout) >= 1 => (stdout[1].num = nps_base /\ stdout[1].den = 1)
     /\ Len(stdout) >= 2 => (stdout[2].num = nps_pr /\ stdout[2].den = 1)
     /\ Len(stdout) >= 3 =>
           /\ stdout[3].num = ratio.num /\ stdout[3].den = ratio.den
           /\ stdout[3].note = (IF ratio.num > ratio.den THEN "faster" ELSE "slower")
     /\ (Len(stdout) = 4) <=> Done
     /\ ~Done => exitcode = -1
     /\ Done =>
           /\ (exitcode = 1) <=> (ratio.num * 100 < 98 * ratio.den)
           /\ (exitcode = 0) <=> ~(ratio.num * 100 < 98 * ratio.den)
           /\ stdout[4].note = (IF exitcode = 1 THEN "PR is slower than base"
                                ELSE "PR is as fast or faster than base")

C7_Witness ==
  /\ Done
  /\ Parsed
  /\ Len(stdout) = 4
  /\ stdout[3].note = "faster"
  /\ stdout[4].note = "PR is as fast or faster than base"
  /\ exitcode = 0

(* ---------------- C8 ---------------- *)
\* C8 as stated: the quotient is used only when nps_base > 0; for every
\* nps_base that is not greater than 0, negative values included, the ratio
\* is the sentinel of the zero base.
C8_SentinelForNonPositiveBase ==
  Computed =>
     /\ nps_base > 0 => ratio.num * nps_base = nps_pr * ratio.den
     /\ nps_base <= 0 => ratio = Zero

\* C8 amended: the ratio is nps_pr / nps_base for every non-zero nps_base,
\* negative values included; only nps_base = 0 gives the sentinel 0.
C8_QuotientForNonZeroBase ==
  Computed =>
     /\ nps_base # 0 => (ratio.den > 0 /\ ratio.num * nps_base = nps_pr * ratio.den)
     /\ nps_base < 0 => (ratio = Zero <=> nps_pr = 0)
     /\ nps_base = 0 => ratio = Zero

C8_Witness ==
  /\ pc = "gate"
  /\ nps_base = -100
  /\ nps_pr = 10000
  /\ ratio = [ok |-> TRUE, num |-> -100, den |-> 1]

(* ---------------- C9 ---------------- *)
\* C9: the score returned by grab(f, False) comes only from a line of the
\* benchmark perftNodes itself, never from a perftNodes:nodes line or another
\* line, and the value returned by grab(f, True) comes only from a
\* perftNodes:nodes line.
C9_ValueFromOwnLine ==
  \A c \in 1..Len(rets) :
     LET line == FileOf(c)[rets[c].line] IN
     IF CallWantNodes(c)
     THEN HasToken(line, BenchNodes)
     ELSE HasToken(line, BenchScore) /\ ~HasToken(line, BenchNodes)

(* ---------------- C10 ---------------- *)
\* C10: a value returned by grab is the token immediately before the anchor
\* token of its line; a matching line whose first token is the anchor never
\* supplies a value.
C10_TokenBeforeAnchor ==
  \A c \in 1..Len(rets) :
     LET toks == FileOf(c)[rets[c].line]
         idx == ListIndex(toks, Anchor(CallWantNodes(c)))
     IN /\ idx >= 1
        /\ Float(toks[idx]) = Value(rets[c].val)

====
